---- MODULE Spec2Model ----
(***************************************************************************)
(* Model of src/main.py, the Image to PDF Converter: the image list and    *)
(* its reordering handlers, and the conversion run convert_images_to_pdf   *)
(* with its per-image normalisation, page choice, scale-to-fit and         *)
(* centring, driven through the reportlab canvas (setPageSize,             *)
(* drawInlineImage, showPage, save).                                       *)
(*                                                                         *)
(* Python floats are IEEE 754 binary64.  A float is kept here as an exact  *)
(* fixed-point number: a little-endian tuple of NumLimbs limbs in base     *)
(* LimbBase = 2^15 whose unit is 2^-(15 * FracLimbs) = 2^-60.  Every       *)
(* arithmetic step computes the exact result and rounds it to MantBits     *)
(* significant bits, ties to even, as the hardware does.  The format is    *)
(* exact for every value in [2^-7, 2^30), which covers every quantity of   *)
(* the page geometry for image sides up to 2^15 pixels.                    *)
(***************************************************************************)
EXTENDS Integers, Sequences, FiniteSets, TLC

(***************************************************************************)
(* Bounds of the model.                                                    *)
(***************************************************************************)
\* longest image list the file dialogs build
MaxList == 4
\* image sides 0..MaxDim are enumerated by the geometry specification
MaxDim == 12

(***************************************************************************)
(* Program constants.                                                      *)
(***************************************************************************)
PortraitW == 612
PortraitH == 792
margin == 36

portrait_size == <<PortraitW, PortraitH>>
landscape_size == <<PortraitH, PortraitW>>

(***************************************************************************)
(* binary64 arithmetic.                                                    *)
(***************************************************************************)
MantBits == 53
LimbBits == 15
FracLimbs == 4
NumLimbs == 6
LimbBase == 2 ^ LimbBits
Limbs == 1 .. NumLimbs

SetMax(S) == CHOOSE m \in S : \A y \in S : y <= m

\* the integer n, 0 <= n < 2^30, as a float
FxInt(n) ==
  [i \in Limbs |-> IF i = FracLimbs + 1 THEN n % LimbBase
                   ELSE IF i = FracLimbs + 2 THEN n \div LimbBase
                   ELSE 0]

\* -1, 0, 1 as a < b, a = b, a > b
FxCmp(a, b) ==
  LET D == {i \in Limbs : a[i] # b[i]}
  IN IF D = {} THEN 0
     ELSE IF a[SetMax(D)] < b[SetMax(D)] THEN -1 ELSE 1

FxLe(a, b) == FxCmp(a, b) <= 0

FxIsZero(a) == \A i \in Limbs : a[i] = 0

\* bit p (p = 0 is the unit 2^-60) of a
FxBit(a, p) == (a[(p \div LimbBits) + 1] \div (2 ^ (p % LimbBits))) % 2

\* number of significant bits of a # 0
FxBitLen(a) ==
  LET top == SetMax({i \in Limbs : a[i] # 0})
      len == CHOOSE k \in 1 .. LimbBits : 2 ^ (k - 1) <= a[top] /\ a[top] < 2 ^ k
  IN LimbBits * (top - 1) + len

RECURSIVE AddCarry(_, _, _)
\* carry into limb i when 2^p is added to a
AddCarry(a, p, i) ==
  LET j == (p \div LimbBits) + 1
  IN IF i <= j THEN 0
     ELSE IF i = j + 1 THEN (a[j] + 2 ^ (p % LimbBits)) \div LimbBase
     ELSE (a[i - 1] + AddCarry(a, p, i - 1)) \div LimbBase

\* a + 2^p, exact
FxAddPow2(a, p) ==
  LET j == (p \div LimbBits) + 1
  IN [i \in Limbs |->
        IF i < j THEN a[i]
        ELSE IF i = j THEN (a[j] + 2 ^ (p % LimbBits)) % LimbBase
        ELSE (a[i] + AddCarry(a, p, i)) % LimbBase]

\* the exact value a (plus a positive amount below one unit when sticky)
\* rounded to MantBits significant bits, ties to even
Round53(a, sticky) ==
  IF FxIsZero(a) \/ FxBitLen(a) <= MantBits THEN a
  ELSE
    LET sh == FxBitLen(a) - MantBits
        guard == FxBit(a, sh - 1)
        st == sticky \/ \E p \in 0 .. (sh - 2) : FxBit(a, p) = 1
        trunc == [i \in Limbs |->
                    LET lo == LimbBits * (i - 1)
                    IN IF lo + LimbBits <= sh THEN 0
                       ELSE IF lo >= sh THEN a[i]
                       ELSE a[i] - (a[i] % (2 ^ (sh - lo)))]
        up == guard = 1 /\ (st \/ FxBit(a, sh) = 1)
    IN IF up THEN FxAddPow2(trunc, sh) ELSE trunc

RECURSIVE MulCarry(_, _, _)
\* carry into limb i of the product a * k
MulCarry(a, k, i) ==
  IF i = 1 THEN 0 ELSE (a[i - 1] * k + MulCarry(a, k, i - 1)) \div LimbBase

\* a * k for an integer 0 <= k <= 2^15, exact
FxMulExact(a, k) == [i \in Limbs |-> (a[i] * k + MulCarry(a, k, i)) % LimbBase]

RECURSIVE SubBorrow(_, _, _)
\* borrow out of limb i - 1 in a - b
SubBorrow(a, b, i) ==
  IF i = 1 THEN 0
  ELSE IF a[i - 1] - b[i - 1] - SubBorrow(a, b, i - 1) < 0 THEN 1 ELSE 0

\* a - b for a >= b, exact
FxSubExact(a, b) ==
  [i \in Limbs |-> (a[i] - b[i] - SubBorrow(a, b, i) + LimbBase) % LimbBase]

\* |a - b|, exact
FxAbsDiff(a, b) == IF FxLe(b, a) THEN FxSubExact(a, b) ELSE FxSubExact(b, a)

RECURSIVE DivRem(_, _, _)
\* remainder carried into limb i (from the limbs above it) in a / d
DivRem(a, d, i) ==
  IF i = NumLimbs THEN 0
  ELSE (DivRem(a, d, i + 1) * LimbBase + a[i + 1]) % d

\* floor(a / d) for an integer 1 <= d <= 2^15, in units of 2^-60
FxDivFloor(a, d) == [i \in Limbs |-> (DivRem(a, d, i) * LimbBase + a[i]) \div d]

\* TRUE when a / d is not a whole number of units
FxDivInexact(a, d) == (DivRem(a, d, 1) * LimbBase + a[1]) % d # 0

\* Python's n / d on two ints, d > 0: the correctly rounded quotient
IntTrueDiv(n, d) == Round53(FxDivFloor(FxInt(n), d), FxDivInexact(FxInt(n), d))

\* Python's k * f on an int and a float
IntMulFloat(k, f) == Round53(FxMulExact(f, k), FALSE)

\* Python's n - f on an int and a float, n >= f
IntSubFloat(n, f) == Round53(FxSubExact(FxInt(n), f), FALSE)

\* Python's f / 2 (exact: only the exponent changes)
FloatHalf(f) ==
  [i \in Limbs |-> (f[i] \div 2)
                   + (IF i < NumLimbs THEN (f[i + 1] % 2) * (LimbBase \div 2) ELSE 0)]

\* Python's min(a, b) on two floats
FloatMin(a, b) == IF FxCmp(b, a) < 0 THEN b ELSE a

(***************************************************************************)
(* Paths, files and decoded images.                                        *)
(***************************************************************************)
\* a path is <<directory, file name>>
NoPath == <<"", "">>
P1 == <<"a", "p1.png">>
P2 == <<"a", "p2.jpg">>
P3 == <<"b", "p1.png">>
P4 == <<"a", "p4.png">>
Paths == {P1, P2, P3, P4}
SavePath == <<"out", "output.pdf">>

\* os.path.basename
Basename(p) == p[2]

\* an image file: whether its header decodes, its raw size, its pixel mode,
\* whether info carries "transparency", its EXIF orientation tag, and whether
\* its pixel data is cut short
File(dec, w, h, mode, transp, orient, trunc) ==
  [decodable |-> dec, width |-> w, height |-> h, mode |-> mode,
   transparency |-> transp, orientation |-> orient, truncated |-> trunc]

DiskGood ==
  (P1 :> File(TRUE, 800, 600, "RGB", FALSE, 1, FALSE))
  @@ (P2 :> File(TRUE, 800, 600, "RGB", FALSE, 6, FALSE))
  @@ (P3 :> File(TRUE, 800, 800, "RGBA", FALSE, 1, FALSE))
  @@ (P4 :> File(TRUE, 5, 7, "P", TRUE, 1, FALSE))

DiskBad ==
  (P1 :> File(TRUE, 800, 600, "RGB", FALSE, 1, FALSE))
  @@ (P2 :> File(FALSE, 0, 0, "", FALSE, 1, FALSE))
  @@ (P3 :> File(TRUE, 0, 5, "L", FALSE, 1, FALSE))
  @@ (P4 :> File(TRUE, 600, 800, "RGB", FALSE, 1, TRUE))

\* image sides the geometry specification enumerates
DimValues == (0 .. MaxDim) \cup {39, 169, 600, 800}

DiskGrid(w, h, orient) ==
  (P1 :> File(TRUE, w, h, "RGB", FALSE, orient, FALSE))
  @@ (P2 :> File(FALSE, 0, 0, "", FALSE, 1, FALSE))
  @@ (P3 :> File(FALSE, 0, 0, "", FALSE, 1, FALSE))
  @@ (P4 :> File(FALSE, 0, 0, "", FALSE, 1, FALSE))

NoImage ==
  [src |-> NoPath, width |-> 0, height |-> 0, mode |-> "", transparency |-> FALSE,
   orientation |-> 1, truncated |-> FALSE, white_bg |-> FALSE]

\* Image.open: the lazily opened image of the file at path p
ImageOpen(d, p) ==
  [src |-> p, width |-> d[p].width, height |-> d[p].height, mode |-> d[p].mode,
   transparency |-> d[p].transparency, orientation |-> d[p].orientation,
   truncated |-> d[p].truncated, white_bg |-> FALSE]

\* ImageOps.exif_transpose: orientations 5..8 turn the image by a quarter turn,
\* and the tag is removed
ExifTranspose(im) ==
  IF im.orientation \in 5 .. 8
  THEN [im EXCEPT !.width = im.height, !.height = im.width, !.orientation = 1]
  ELSE [im EXCEPT !.orientation = 1]

\* the test of the transparency branch
HasTransparency(im) ==
  im.mode \in {"RGBA", "LA"} \/ (im.mode = "P" /\ im.transparency)

\* both branches end in an opaque RGB image of the same size
ResolveTransparency(im) ==
  IF HasTransparency(im)
  THEN [im EXCEPT !.mode = "RGB", !.transparency = FALSE, !.white_bg = TRUE]
  ELSE [im EXCEPT !.mode = "RGB", !.transparency = FALSE]

NormalizeImage(im) == ResolveTransparency(ExifTranspose(im))

(***************************************************************************)
(* Page geometry.                                                          *)
(***************************************************************************)
\* mutant: the tie goes to landscape
PageSizeStrict(im) == IF im.height > im.width THEN portrait_size ELSE landscape_size

\* mutant: the comparison is turned round
PageSizeSwapped(im) == IF im.width >= im.height THEN portrait_size ELSE landscape_size

PageSizeFor(im) == IF im.height >= im.width THEN portrait_size ELSE landscape_size

Available(page) == <<page[1] - 2 * margin, page[2] - 2 * margin>>

\* mutant: the larger of the two ratios
ScaleForMax(im, page) ==
  LET a == IntTrueDiv(Available(page)[1], im.width)
      b == IntTrueDiv(Available(page)[2], im.height)
  IN IF FxCmp(b, a) < 0 THEN a ELSE b

ScaleFor(im, page) ==
  FloatMin(IntTrueDiv(Available(page)[1], im.width),
           IntTrueDiv(Available(page)[2], im.height))

NoGeom ==
  [scale |-> FxInt(0), new_w |-> FxInt(0), new_h |-> FxInt(0),
   x |-> FxInt(0), y |-> FxInt(0)]

Placement(im, page) ==
  LET s == ScaleFor(im, page)
      nw == IntMulFloat(im.width, s)
      nh == IntMulFloat(im.height, s)
  IN [scale |-> s, new_w |-> nw, new_h |-> nh,
      x |-> FloatHalf(IntSubFloat(page[1], nw)),
      y |-> FloatHalf(IntSubFloat(page[2], nh))]

(***************************************************************************)
(* The reportlab canvas.                                                   *)
(***************************************************************************)
\* reportlab's default page size, A4, in whole points
DefaultPageSize == <<595, 842>>

NoPdf ==
  [exists |-> FALSE, filename |-> NoPath, pagesize |-> <<0, 0>>, cur |-> <<>>,
   pages |-> <<>>, saved |-> FALSE]

NewCanvas(path) ==
  [exists |-> TRUE, filename |-> path, pagesize |-> DefaultPageSize, cur |-> <<>>,
   pages |-> <<>>, saved |-> FALSE]

CanvasSetPageSize(c, size) == [c EXCEPT !.pagesize = size]

CanvasDrawInlineImage(c, im, g) ==
  [c EXCEPT !.cur = Append(c.cur,
      [src |-> im.src, img_w |-> im.width, img_h |-> im.height,
       x |-> g.x, y |-> g.y, width |-> g.new_w, height |-> g.new_h])]

CanvasShowPage(c) ==
  [c EXCEPT !.pages = Append(c.pages, [size |-> c.pagesize, content |-> c.cur]),
            !.cur = <<>>]

CanvasSave(c) == [c EXCEPT !.saved = TRUE]

(***************************************************************************)
(* List helpers.                                                           *)
(***************************************************************************)
SetMin(S) == CHOOSE m \in S : \A y \in S : m <= y

RECURSIVE Ascending(_)
\* curselection(): the selected indices, ascending
Ascending(S) ==
  IF S = {} THEN <<>> ELSE <<SetMin(S)>> \o Ascending(S \ {SetMin(S)})

Reversed(q) == [k \in 1 .. Len(q) |-> q[Len(q) + 1 - k]]

\* the list with the items at 0-based indices a and b exchanged
Swap(list, a, b) ==
  [k \in 1 .. Len(list) |->
     IF k = a + 1 THEN list[b + 1] ELSE IF k = b + 1 THEN list[a + 1] ELSE list[k]]

RECURSIVE SwapEach(_, _, _)
\* for idx in idxs: list[idx + delta], list[idx] = list[idx], list[idx + delta]
SwapEach(list, idxs, delta) ==
  IF idxs = <<>> THEN list
  ELSE SwapEach(Swap(list, Head(idxs) + delta, Head(idxs)), Tail(idxs), delta)

MoveUpList(list, selected) == SwapEach(list, selected, -1)

\* mutant: the downward move walks the selection top to bottom
MoveDownForward(list, selected) == SwapEach(list, selected, 1)

MoveDownList(list, selected) == SwapEach(list, Reversed(selected), 1)

\* del list[idx], idx 0-based
DelAt(list, idx) ==
  [k \in 1 .. (Len(list) - 1) |-> IF k <= idx THEN list[k] ELSE list[k + 1]]

RECURSIVE DelEach(_, _)
DelEach(list, idxs) ==
  IF idxs = <<>> THEN list ELSE DelEach(DelAt(list, Head(idxs)), Tail(idxs))

RECURSIVE AppendNew(_, _)
\* for p in paths: if p not in list: list.append(p)
AppendNew(list, paths) ==
  IF paths = <<>> THEN list
  ELSE AppendNew(IF \E k \in 1 .. Len(list) : list[k] = Head(paths)
                 THEN list ELSE Append(list, Head(paths)),
                 Tail(paths))

\* what a file dialog can return: no file (cancelled), or distinct files
DialogResults ==
  {q \in UNION {[1 .. n -> Paths] : n \in 0 .. MaxList} :
     \A a, b \in 1 .. Len(q) : a # b => q[a] # q[b]}

Basenames(list) == [k \in 1 .. Len(list) |-> Basename(list[k])]

\* mutant: the empty list is not turned away
HasImagesAlways(list) == TRUE

\* "if not self.image_paths" is false
HasImages(list) == list # <<>>

(***************************************************************************)
(* State.                                                                  *)
(***************************************************************************)
VARIABLES
  image_paths,   \* self.image_paths
  listbox,       \* the file names the listbox shows
  selection,     \* the selected listbox indices, 0-based
  status_text,   \* self.status_text, as <<kind, number, number, name>>
  dialog,        \* the message box shown by the handler that ran last
  disk,          \* the image files behind the paths
  pc,            \* position of convert_images_to_pdf, "idle" outside it
  save_path,     \* local save_path
  pdf,           \* local pdf, the canvas
  total,         \* local total
  i,             \* local i of the enumerate loop
  img,           \* local img
  page,          \* locals page_w, page_h
  geom,          \* locals scale, new_w, new_h, x, y
  ex,            \* the exception caught by the except clause
  log,           \* the canvas calls and progress notices of the run, in order
  last           \* the handler that ran last

vars ==
  <<image_paths, listbox, selection, status_text, dialog, disk, pc, save_path, pdf,
    total, i, img, page, geom, ex, log, last>>

locals == <<save_path, pdf, total, i, img, page, geom, ex, log>>
widgets == <<image_paths, listbox, selection, status_text, dialog>>

NoDialog == [kind |-> "none", title |-> "", text |-> "", path |-> NoPath]
NoEx == [type |-> "", text |-> "", path |-> NoPath]
Status(kind, a, b, name) == <<kind, a, b, name>>
Event(kind, idx, n, name) == <<kind, idx, n, name>>
\* a handler that ran last; move_up, move_down and the conversion keep the list
\* and selection they found
Handler(op) == [op |-> op, paths |-> <<>>, sel |-> {}]
HandlerFrom(op) == [op |-> op, paths |-> image_paths, sel |-> selection]

LocalsCleared ==
  /\ save_path = NoPath
  /\ pdf = NoPdf
  /\ total = 0
  /\ i = 0
  /\ img = NoImage
  /\ page = <<0, 0>>
  /\ geom = NoGeom
  /\ ex = NoEx
  /\ log = <<>>

\* the locals of a run go out of scope
ClearLocals ==
  /\ save_path' = NoPath
  /\ pdf' = NoPdf
  /\ total' = 0
  /\ i' = 0
  /\ img' = NoImage
  /\ page' = <<0, 0>>
  /\ geom' = NoGeom
  /\ ex' = NoEx
  /\ log' = <<>>

InitWith(d, paths) ==
  /\ image_paths = paths
  /\ listbox = Basenames(paths)
  /\ selection = {}
  /\ status_text = IF paths = <<>> THEN Status("Ready", 0, 0, "")
                   ELSE Status("Selected", Len(paths), 0, "")
  /\ dialog = NoDialog
  /\ disk = d
  /\ pc = "idle"
  /\ LocalsCleared
  /\ last = Handler(IF paths = <<>> THEN "init" ELSE "select_images")

Init == \E d \in {DiskGood, DiskBad} : InitWith(d, <<>>)

(***************************************************************************)
(* List handlers.  They run only between conversion runs: the program is   *)
(* single-threaded and a run does not return to the event loop.            *)
(***************************************************************************)
\* update_selected_images_listbox: delete(0, END) also drops the selection
RefreshListbox(paths) ==
  /\ listbox' = Basenames(paths)
  /\ selection' = {}

\* the user selects rows of the EXTENDED-mode listbox
UserSelect ==
  /\ pc = "idle"
  /\ \E S \in SUBSET (0 .. (Len(image_paths) - 1)) :
       /\ S # selection
       /\ selection' = S
  /\ dialog' = NoDialog
  /\ last' = Handler("select")
  /\ UNCHANGED <<image_paths, listbox, status_text, disk, pc, locals>>

select_images ==
  /\ pc = "idle"
  /\ last' = Handler("select_images")
  /\ dialog' = NoDialog
  /\ \E paths \in DialogResults :
       IF paths = <<>>
       THEN UNCHANGED <<image_paths, listbox, selection, status_text>>
       ELSE /\ image_paths' = paths
            /\ RefreshListbox(paths)
            /\ status_text' = Status("Selected", Len(paths), 0, "")
  /\ UNCHANGED <<disk, pc, locals>>

add_images ==
  /\ pc = "idle"
  /\ last' = Handler("add_images")
  /\ dialog' = NoDialog
  /\ \E paths \in DialogResults :
       IF paths = <<>>
       THEN UNCHANGED <<image_paths, listbox, selection, status_text>>
       ELSE /\ Len(AppendNew(image_paths, paths)) <= MaxList
            /\ image_paths' = AppendNew(image_paths, paths)
            /\ RefreshListbox(image_paths')
            /\ status_text' = Status("Selected", Len(image_paths'), 0, "")
  /\ UNCHANGED <<disk, pc, locals>>

clear_list ==
  /\ pc = "idle"
  /\ last' = Handler("clear_list")
  /\ dialog' = NoDialog
  /\ image_paths' = <<>>
  /\ RefreshListbox(<<>>)
  /\ status_text' = Status("Cleared", 0, 0, "")
  /\ UNCHANGED <<disk, pc, locals>>

remove_selected ==
  /\ pc = "idle"
  /\ last' = Handler("remove_selected")
  /\ IF selection = {}
     THEN /\ dialog' = [kind |-> "warning", title |-> "Nothing selected",
                        text |-> "Select one or more images to remove.",
                        path |-> NoPath]
          /\ UNCHANGED <<image_paths, listbox, selection, status_text>>
     ELSE /\ dialog' = NoDialog
          /\ image_paths' = DelEach(image_paths, Reversed(Ascending(selection)))
          /\ RefreshListbox(image_paths')
          /\ status_text' = Status("Remaining", Len(image_paths'), 0, "")
  /\ UNCHANGED <<disk, pc, locals>>

move_up ==
  /\ pc = "idle"
  /\ last' = HandlerFrom("move_up")
  /\ dialog' = NoDialog
  /\ IF selection = {} \/ 0 \in selection
     THEN UNCHANGED <<image_paths, listbox, selection>>
     ELSE /\ image_paths' = MoveUpList(image_paths, Ascending(selection))
          /\ listbox' = Basenames(image_paths')
          /\ selection' = {idx - 1 : idx \in selection}
  /\ UNCHANGED <<status_text, disk, pc, locals>>

move_down ==
  /\ pc = "idle"
  /\ last' = HandlerFrom("move_down")
  /\ dialog' = NoDialog
  /\ IF selection = {} \/ (Len(image_paths) - 1) \in selection
     THEN UNCHANGED <<image_paths, listbox, selection>>
     ELSE /\ image_paths' = MoveDownList(image_paths, Ascending(selection))
          /\ listbox' = Basenames(image_paths')
          /\ selection' = {idx + 1 : idx \in selection}
  /\ UNCHANGED <<status_text, disk, pc, locals>>

(***************************************************************************)
(* convert_images_to_pdf, one step per statement group.                    *)
(***************************************************************************)
\* the list is empty: a warning, and nothing else
ConvertNoImages ==
  /\ pc = "idle"
  /\ ~HasImages(image_paths)
  /\ last' = HandlerFrom("convert")
  /\ dialog' = [kind |-> "warning", title |-> "No images",
                text |-> "Please select at least one image.", path |-> NoPath]
  /\ UNCHANGED <<image_paths, listbox, selection, status_text, disk, pc, locals>>

\* the Save As dialog is cancelled
ConvertCancelled ==
  /\ pc = "idle"
  /\ HasImages(image_paths)
  /\ last' = HandlerFrom("convert")
  /\ dialog' = NoDialog
  /\ UNCHANGED <<image_paths, listbox, selection, status_text, disk, pc, locals>>

\* the Save As dialog gives a path
ConvertStart ==
  /\ pc = "idle"
  /\ HasImages(image_paths)
  /\ last' = HandlerFrom("convert")
  /\ dialog' = NoDialog
  /\ save_path' = SavePath
  /\ pc' = "canvas"
  /\ UNCHANGED <<image_paths, listbox, selection, status_text, disk, pdf, total, i,
                 img, page, geom, ex, log>>

CreateCanvas ==
  /\ pc = "canvas"
  /\ pdf' = NewCanvas(save_path)
  /\ total' = Len(image_paths)
  /\ log' = Append(log, Event("Canvas", 0, 0, Basename(save_path)))
  /\ pc' = "for"
  /\ UNCHANGED <<widgets, disk, save_path, i, img, page, geom, ex, last>>

\* mutant: the loop stops one image short
ForNextShort ==
  /\ pc = "for"
  /\ IF i < Len(image_paths) - 1
     THEN i' = i + 1 /\ pc' = "progress"
     ELSE i' = i /\ pc' = "save"
  /\ UNCHANGED <<widgets, disk, save_path, pdf, total, img, page, geom, ex, log, last>>

\* the head of "for i, image_path in enumerate(self.image_paths, start=1)"
ForNext ==
  /\ pc = "for"
  /\ IF i < Len(image_paths)
     THEN i' = i + 1 /\ pc' = "progress"
     ELSE i' = i /\ pc' = "save"
  /\ UNCHANGED <<widgets, disk, save_path, pdf, total, img, page, geom, ex, log, last>>

\* mutant: the notice counts from zero
ProgressZeroBased ==
  /\ pc = "progress"
  /\ status_text' = Status("Processing", i - 1, total, Basename(image_paths[i]))
  /\ log' = Append(log, Event("progress", i - 1, total, Basename(image_paths[i])))
  /\ pc' = "open"
  /\ UNCHANGED <<image_paths, listbox, selection, dialog, disk, save_path, pdf, total,
                 i, img, page, geom, ex, last>>

Progress ==
  /\ pc = "progress"
  /\ status_text' = Status("Processing", i, total, Basename(image_paths[i]))
  /\ log' = Append(log, Event("progress", i, total, Basename(image_paths[i])))
  /\ pc' = "open"
  /\ UNCHANGED <<image_paths, listbox, selection, dialog, disk, save_path, pdf, total,
                 i, img, page, geom, ex, last>>

\* mutant: every pass opens the first image of the list
OpenOkFirst ==
  /\ pc = "open"
  /\ disk[image_paths[i]].decodable
  /\ img' = ImageOpen(disk, image_paths[1])
  /\ pc' = "normalize"
  /\ UNCHANGED <<widgets, disk, save_path, pdf, total, i, page, geom, ex, log, last>>

OpenOk ==
  /\ pc = "open"
  /\ disk[image_paths[i]].decodable
  /\ img' = ImageOpen(disk, image_paths[i])
  /\ pc' = "normalize"
  /\ UNCHANGED <<widgets, disk, save_path, pdf, total, i, page, geom, ex, log, last>>

\* Image.open raises; its message names the file
OpenFail ==
  /\ pc = "open"
  /\ ~disk[image_paths[i]].decodable
  /\ ex' = [type |-> "UnidentifiedImageError", text |-> "cannot identify image file",
            path |-> image_paths[i]]
  /\ pc' = "except"
  /\ UNCHANGED <<widgets, disk, save_path, pdf, total, i, img, page, geom, log, last>>

NormalizeOk ==
  /\ pc = "normalize"
  /\ ~img.truncated
  /\ img' = NormalizeImage(img)
  /\ pc' = "setPageSize"
  /\ UNCHANGED <<widgets, disk, save_path, pdf, total, i, page, geom, ex, log, last>>

\* loading the pixel data raises; its message names no file
NormalizeFail ==
  /\ pc = "normalize"
  /\ img.truncated
  /\ ex' = [type |-> "OSError", text |-> "image file is truncated", path |-> NoPath]
  /\ pc' = "except"
  /\ UNCHANGED <<widgets, disk, save_path, pdf, total, i, img, page, geom, log, last>>

SetPageSize ==
  /\ pc = "setPageSize"
  /\ page' = PageSizeFor(img)
  /\ pdf' = CanvasSetPageSize(pdf, page')
  /\ log' = Append(log, Event("setPageSize", i, 0, ""))
  /\ pc' = "scale"
  /\ UNCHANGED <<widgets, disk, save_path, total, i, img, geom, ex, last>>

ScaleOk ==
  /\ pc = "scale"
  /\ img.width # 0 /\ img.height # 0
  /\ geom' = Placement(img, page)
  /\ pc' = "draw"
  /\ UNCHANGED <<widgets, disk, save_path, pdf, total, i, img, page, ex, log, last>>

\* one of the two divisions has a zero divisor and raises
ScaleZero ==
  /\ pc = "scale"
  /\ img.width = 0 \/ img.height = 0
  /\ ex' = [type |-> "ZeroDivisionError", text |-> "division by zero", path |-> NoPath]
  /\ pc' = "except"
  /\ UNCHANGED <<widgets, disk, save_path, pdf, total, i, img, page, geom, log, last>>

DrawImage ==
  /\ pc = "draw"
  /\ pdf' = CanvasDrawInlineImage(pdf, img, geom)
  /\ log' = Append(log, Event("drawInlineImage", i, 0, ""))
  /\ pc' = "showPage"
  /\ UNCHANGED <<widgets, disk, save_path, total, i, img, page, geom, ex, last>>

ShowPage ==
  /\ pc = "showPage"
  /\ pdf' = CanvasShowPage(pdf)
  /\ log' = Append(log, Event("showPage", i, 0, ""))
  /\ pc' = "for"
  /\ UNCHANGED <<widgets, disk, save_path, total, i, img, page, geom, ex, last>>

SaveOk ==
  /\ pc = "save"
  /\ pdf' = CanvasSave(pdf)
  /\ log' = Append(log, Event("save", 0, 0, ""))
  /\ status_text' = Status("Done", 0, 0, Basename(save_path))
  /\ dialog' = [kind |-> "info", title |-> "Success",
                text |-> "PDF created successfully", path |-> save_path]
  /\ pc' = "done"
  /\ UNCHANGED <<image_paths, listbox, selection, disk, save_path, total, i, img, page,
                 geom, ex, last>>

\* save() cannot write the destination and raises
SaveFail ==
  /\ pc = "save"
  /\ log' = Append(log, Event("save", 0, 0, ""))
  /\ ex' = [type |-> "PermissionError", text |-> "Permission denied", path |-> save_path]
  /\ pc' = "except"
  /\ UNCHANGED <<widgets, disk, save_path, pdf, total, i, img, page, geom, last>>

\* except Exception as ex
Except ==
  /\ pc = "except"
  /\ status_text' = Status("Error", 0, 0, "")
  /\ dialog' = [kind |-> "error", title |-> "Conversion failed", text |-> ex.text,
                path |-> ex.path]
  /\ pc' = "failed"
  /\ UNCHANGED <<image_paths, listbox, selection, disk, locals, last>>

\* the handler returns and its locals are gone
Return ==
  /\ pc \in {"done", "failed"}
  /\ pc' = "idle"
  /\ ClearLocals
  /\ UNCHANGED <<widgets, disk, last>>

Run ==
  \/ CreateCanvas \/ ForNext \/ Progress \/ OpenOk \/ OpenFail \/ NormalizeOk
  \/ NormalizeFail \/ SetPageSize \/ ScaleOk \/ ScaleZero \/ DrawImage \/ ShowPage
  \/ SaveOk \/ SaveFail \/ Except \/ Return

Next ==
  \/ UserSelect \/ select_images \/ add_images \/ clear_list \/ remove_selected
  \/ move_up \/ move_down
  \/ ConvertNoImages \/ ConvertCancelled \/ ConvertStart
  \/ Run

Spec == Init /\ [][Next]_vars

(***************************************************************************)
(* The geometry specification: one image of every size of the grid, in     *)
(* either camera orientation, is selected and converted.                   *)
(***************************************************************************)
InitGeom ==
  \E w \in DimValues, h \in DimValues, o \in {1, 6} :
    InitWith(DiskGrid(w, h, o), <<P1>>)

NextGeom ==
  \/ ConvertStart \/ CreateCanvas \/ ForNext \/ Progress \/ OpenOk \/ NormalizeOk
  \/ SetPageSize \/ ScaleOk \/ ScaleZero \/ DrawImage \/ ShowPage \/ SaveOk
  \/ SaveFail \/ Except \/ Return

SpecGeom == InitGeom /\ [][NextGeom]_vars

(***************************************************************************)
(* Properties.                                                             *)
(***************************************************************************)
PortraitPage == <<612, 792>>
LandscapePage == <<792, 612>>

\* the size the decoded image of file f has once its orientation tag is applied
UprightW(f) == IF f.orientation \in 5 .. 8 THEN f.height ELSE f.width
UprightH(f) == IF f.orientation \in 5 .. 8 THEN f.width ELSE f.height

IsCanvasCall(e) == e[1] # "progress"
IsProgress(e) == e[1] = "progress"
CanvasCalls == SelectSeq(log, IsCanvasCall)
ProgressNotices == SelectSeq(log, IsProgress)
NumberOf(kind) == Cardinality({j \in 1 .. Len(log) : log[j][1] = kind})

\* C1: in every run, closed page k holds exactly one drawing and it is the
\* drawing of the k-th image of the list; once the loop has ended the canvas
\* holds exactly as many pages as the list has images.
C1_PagesFollowList ==
  pdf.exists =>
    /\ Len(pdf.pages) <= Len(image_paths)
    /\ \A k \in 1 .. Len(pdf.pages) :
         /\ Len(pdf.pages[k].content) = 1
         /\ pdf.pages[k].content[1].src = image_paths[k]
    /\ (pc \in {"save", "done"} => Len(pdf.pages) = Len(image_paths))

C1_Witness ==
  /\ pc = "done"
  /\ Len(image_paths) = 3
  /\ Len(pdf.pages) = 3
  /\ pdf.pages[3].content[1].src = image_paths[3]

\* C2: every closed page has the size its own image asks for, portrait
\* 612x792 when the upright image is at least as high as wide (squares
\* included) and landscape 792x612 otherwise, whatever pages came before;
\* images of 800x600, 600x800 and 800x800 give landscape, portrait, portrait.
C2_PageFromOwnImage ==
  /\ \A k \in 1 .. Len(pdf.pages) :
       LET f == disk[image_paths[k]]
       IN pdf.pages[k].size =
            IF UprightH(f) >= UprightW(f) THEN PortraitPage ELSE LandscapePage
  /\ (pc = "done" /\ disk = DiskGood /\ image_paths = <<P1, P2, P3>>) =>
       /\ <<UprightW(disk[P1]), UprightH(disk[P1])>> = <<800, 600>>
       /\ <<UprightW(disk[P2]), UprightH(disk[P2])>> = <<600, 800>>
       /\ <<UprightW(disk[P3]), UprightH(disk[P3])>> = <<800, 800>>
       /\ [k \in 1 .. 3 |-> pdf.pages[k].size]
            = <<LandscapePage, PortraitPage, PortraitPage>>

C2_Witness ==
  /\ pc = "done"
  /\ disk = DiskGood
  /\ image_paths = <<P1, P2, P3>>
  /\ Len(pdf.pages) = 3

\* C3 as stated: an image at least as wide as high gets a portrait page, an
\* image higher than wide a landscape page.
C3_AsStated ==
  \A k \in 1 .. Len(pdf.pages) :
    LET d == pdf.pages[k].content[1]
    IN pdf.pages[k].size =
         IF d.img_w >= d.img_h THEN PortraitPage ELSE LandscapePage

\* C3 amended: an image at least as high as wide (squares included) gets a
\* portrait page, an image wider than high a landscape page.
C3_Amended ==
  \A k \in 1 .. Len(pdf.pages) :
    LET d == pdf.pages[k].content[1]
    IN /\ d.img_h >= d.img_w => pdf.pages[k].size = PortraitPage
       /\ d.img_w > d.img_h => pdf.pages[k].size = LandscapePage

C3_Witness ==
  /\ Len(pdf.pages) = 1
  /\ pdf.pages[1].content[1].img_w = 5
  /\ pdf.pages[1].content[1].img_h = 5
  /\ pdf.pages[1].size = PortraitPage

\* printable width and height of the page the orientation rule gives an image
PrintableW(im) == (IF im.height >= im.width THEN 612 ELSE 792) - 2 * 36
PrintableH(im) == (IF im.height >= im.width THEN 792 ELSE 612) - 2 * 36

\* one unit in the last place of a float in [512, 1024): 2^-43
UlpBit == LimbBits * FracLimbs - 43
Ulp == FxAddPow2(FxInt(0), UlpBit)
\* a * 2^52
FxShift52(a) ==
  FxMulExact(FxMulExact(FxMulExact(FxMulExact(a, 2 ^ 15), 2 ^ 15), 2 ^ 15), 2 ^ 7)
FxMax(a, b) == IF FxLe(a, b) THEN b ELSE a

\* C4 as stated: the scaled sides are at most the printable sides, one of
\* them is equal to its printable side, and scaled_w * height equals
\* scaled_h * width.
C4_AsStated ==
  pc = "draw" =>
    /\ FxLe(geom.new_w, FxInt(PrintableW(img)))
    /\ FxLe(geom.new_h, FxInt(PrintableH(img)))
    /\ \/ geom.new_w = FxInt(PrintableW(img))
       \/ geom.new_h = FxInt(PrintableH(img))
    /\ FxMulExact(geom.new_w, img.height) = FxMulExact(geom.new_h, img.width)

\* C4 amended: the scale is the smaller of the two rounded ratios; each
\* scaled side is at most its printable side plus 2^-43, one of them is
\* within 2^-43 of its printable side, and scaled_w * height and
\* scaled_h * width differ by at most 2^-52 of the larger of the two.
C4_Amended ==
  pc = "draw" =>
    LET pw == FxInt(PrintableW(img))
        ph == FxInt(PrintableH(img))
        rw == IntTrueDiv(PrintableW(img), img.width)
        rh == IntTrueDiv(PrintableH(img), img.height)
        a == FxMulExact(geom.new_w, img.height)
        b == FxMulExact(geom.new_h, img.width)
    IN /\ geom.scale \in {rw, rh}
       /\ FxLe(geom.scale, rw) /\ FxLe(geom.scale, rh)
       /\ FxLe(geom.new_w, FxAddPow2(pw, UlpBit))
       /\ FxLe(geom.new_h, FxAddPow2(ph, UlpBit))
       /\ \/ FxLe(FxAbsDiff(geom.new_w, pw), Ulp)
          \/ FxLe(FxAbsDiff(geom.new_h, ph), Ulp)
       /\ FxLe(FxShift52(FxAbsDiff(a, b)), FxMax(a, b))

\* an upscaled image whose scaled height comes out above the printable height
C4_Witness ==
  /\ pc = "draw"
  /\ img.width = 1
  /\ img.height = 169
  /\ FxCmp(geom.new_h, FxInt(PrintableH(img))) > 0

\* C5: when image i of a run fails, no page beyond i - 1 exists, save was
\* not called, and the failure shown names image i.
C5_FailureNamesImage ==
  (pc = "failed" /\ ex.type # "PermissionError") =>
    /\ Len(pdf.pages) = i - 1
    /\ ~pdf.saved
    /\ NumberOf("save") = 0
    /\ dialog.kind = "error"
    /\ dialog.path = image_paths[i]

\* C6: a conversion asked for on an empty list ends at once with a warning:
\* no save path, no canvas, no page, no save.
C6_EmptyListTurnedAway ==
  (last.op = "convert" /\ last.paths = <<>>) =>
    /\ pc = "idle"
    /\ dialog.kind = "warning"
    /\ dialog.title = "No images"
    /\ save_path = NoPath
    /\ pdf = NoPdf
    /\ log = <<>>
    /\ image_paths = <<>>

\* the list was emptied by remove_selected before the conversion was asked for
C6_Witness ==
  /\ last.op = "convert"
  /\ last.paths = <<>>
  /\ status_text[1] = "Remaining"
  /\ dialog.kind = "warning"

\* C7: an image with a zero side is turned away by a check of its own,
\* as InvalidImageError; no division by zero is evaluated.
C7_ZeroSideChecked ==
  /\ ex.type # "ZeroDivisionError"
  /\ (pc \in {"except", "failed"} /\ img.src # NoPath
        /\ (img.width = 0 \/ img.height = 0))
       => ex.type = "InvalidImageError"

\* C8: the canvas is created once, first; after it the calls come as
\* setPageSize, drawInlineImage, showPage for image 1, 2, ... in turn; save
\* comes at most once, as the last call, after the showPage of the last image.
C8_CanvasLifecycle ==
  LET c == CanvasCalls
      kinds == <<"setPageSize", "drawInlineImage", "showPage">>
  IN /\ (pdf.exists <=> Len(c) >= 1)
     /\ \A j \in 1 .. Len(c) :
          IF j = 1 THEN c[j][1] = "Canvas"
          ELSE \/ /\ c[j][1] = kinds[((j - 2) % 3) + 1]
                  /\ c[j][2] = ((j - 2) \div 3) + 1
                  /\ c[j][2] <= Len(image_paths)
               \/ /\ c[j][1] = "save"
                  /\ j = Len(c)
                  /\ j = 3 * Len(image_paths) + 2
     /\ NumberOf("save") <= 1
     /\ Len(pdf.pages) = NumberOf("showPage")
     /\ Len(pdf.cur) = NumberOf("drawInlineImage") - NumberOf("showPage")
     /\ Len(pdf.cur) <= 1
     /\ (pdf.saved => NumberOf("save") = 1)

C8_Witness ==
  /\ pc = "done"
  /\ pdf.saved
  /\ Len(CanvasCalls) = 11
  /\ CanvasCalls[11][1] = "save"

\* C9: the k-th notice of a run is (k, N, file name of image k); it comes
\* right after the canvas is created (k = 1) or page k - 1 is closed, and
\* before page k is set up; a run that succeeds has given N notices.
C9_ProgressPerImage ==
  /\ \A j \in 1 .. Len(log) :
       IsProgress(log[j]) =>
         LET k == Cardinality({m \in 1 .. j : IsProgress(log[m])})
         IN /\ k <= Len(image_paths)
            /\ log[j] = <<"progress", k, Len(image_paths), image_paths[k][2]>>
            /\ j > 1
            /\ log[j - 1][1] = (IF k = 1 THEN "Canvas" ELSE "showPage")
            /\ (k > 1 => log[j - 1][2] = k - 1)
            /\ (j < Len(log) => log[j + 1] = <<"setPageSize", k, 0, "">>)
  /\ (pc = "open" => status_text = <<"Processing", i, Len(image_paths), image_paths[i][2]>>)
  /\ (NumberOf("save") = 1 /\ pc = "done") =>
       /\ Len(ProgressNotices) = Len(image_paths)
       /\ log[Len(log)][1] = "save"

C9_Witness ==
  /\ pc = "done"
  /\ image_paths = <<P3, P2, P1>>
  /\ Len(ProgressNotices) = 3
  /\ ProgressNotices[3] = <<"progress", 3, 3, "p1.png">>

RECURSIVE Skipping(_, _, _)
\* the items of list from 0-based index k on whose index is not in S, in order
Skipping(list, S, k) ==
  IF k >= Len(list) THEN <<>>
  ELSE (IF k \in S THEN <<>> ELSE <<list[k + 1]>>) \o Skipping(list, S, k + 1)

SameItems(a, b) ==
  /\ Len(a) = Len(b)
  /\ \A k \in 1 .. Len(a) :
       Cardinality({j \in 1 .. Len(a) : a[j] = a[k]})
         = Cardinality({j \in 1 .. Len(b) : b[j] = a[k]})

\* the list and selection after the selected items S of old moved by delta
MovedBy(old, S, delta) ==
  /\ \A idx \in S : image_paths[idx + delta + 1] = old[idx + 1]
  /\ selection = {idx + delta : idx \in S}
  /\ Skipping(image_paths, selection, 0) = Skipping(old, S, 0)

\* C10: move_up and move_down leave the list a permutation of itself; with
\* nothing selected, or the selection at the edge moved towards, list and
\* selection stay as they are; otherwise every selected item ends one place
\* up (down), the other items keep their order, and the moved items are the
\* selection.
C10_MovePermutes ==
  /\ last.op \in {"move_up", "move_down"} =>
       /\ SameItems(last.paths, image_paths)
       /\ listbox = [k \in 1 .. Len(image_paths) |-> image_paths[k][2]]
  /\ last.op = "move_up" =>
       IF last.sel = {} \/ 0 \in last.sel
       THEN image_paths = last.paths /\ selection = last.sel
       ELSE MovedBy(last.paths, last.sel, -1)
  /\ last.op = "move_down" =>
       IF last.sel = {} \/ (Len(last.paths) - 1) \in last.sel
       THEN image_paths = last.paths /\ selection = last.sel
       ELSE MovedBy(last.paths, last.sel, 1)

\* a selection with a gap was moved down, then rows 1 and 3 were moved up
C10_Witness ==
  /\ last.op = "move_up"
  /\ last.sel = {1, 3}
  /\ Len(last.paths) = 4
  /\ selection = {0, 2}
  /\ image_paths = <<last.paths[2], last.paths[1], last.paths[4], last.paths[3]>>

====
